---- MODULE Spec2Model ----
(***************************************************************************)
(* Model of backend/routers/announcements.py: the announcements router of  *)
(* the High School Management System API.                                  *)
(*                                                                         *)
(* Date strings and announcement ids are sequences of character codes, so  *)
(* that strptime, strftime, ObjectId(...) and str(ObjectId) are computed   *)
(* and the store's string comparison ($gte / $lte) is the lexicographic    *)
(* one.  Messages and usernames are opaque and are TLA+ strings.           *)
(***************************************************************************)
EXTENDS Integers, Sequences, FiniteSets, TLC

VARIABLES
    announcements_collection,   \* the announcement store: ObjectId -> document
    teachers_collection,        \* the teacher directory: set of teacher documents
    next_oid,                   \* the next ObjectId the store hands out
    clock,                      \* days elapsed since StartDay (datetime.now())
    request,                    \* the request handled last (sequential handlers)
    response,                   \* its response
    update_req,                 \* an update request in flight, store step by store step
    delete_req                  \* a delete request in flight, store step by store step

vars == <<announcements_collection, teachers_collection, next_oid, clock,
          request, response, update_req, delete_req>>

----------------------------------------------------------------------------
(* Bounds *)

MaxOid == 2        \* ObjectIds handed out by the store: 1..MaxOid
MaxClock == 1      \* days the clock may advance

----------------------------------------------------------------------------
(* Characters and strings *)

DASH == 45
SPACE == 32
Dg(d) == 48 + d                       \* the character of decimal digit d
IsDigit(c) == c \in 48..57
DigitVal(c) == c - 48
IsHex(c) == c \in 48..57 \/ c \in 97..102 \/ c \in 65..70
HexVal(c) == IF c \in 48..57 THEN c - 48
             ELSE IF c \in 97..102 THEN c - 87 ELSE c - 55
HexChar(v) == IF v < 10 THEN 48 + v ELSE 87 + v

At(s, i) == IF i \in 1..Len(s) THEN s[i] ELSE 0

\* a <= b in the byte order the store compares strings in
StrLe(a, b) ==
    \/ Len(a) <= Len(b) /\ \A i \in 1..Len(a) : a[i] = b[i]
    \/ \E i \in 1..Len(a) :
          /\ i <= Len(b)
          /\ \A j \in 1..(i - 1) : a[j] = b[j]
          /\ a[i] < b[i]

----------------------------------------------------------------------------
(* datetime *)

ValueError == <<>>

IsLeap(y) == (y % 4 = 0 /\ y % 100 # 0) \/ y % 400 = 0

DaysInMonth(y, m) ==
    IF m = 2 THEN (IF IsLeap(y) THEN 29 ELSE 28)
    ELSE IF m \in {4, 6, 9, 11} THEN 30 ELSE 31

\* %m at position i: 1[0-2] | 0[1-9] | [1-9], followed by the literal '-'
MonthLen(s, i) ==
    IF At(s, i) = Dg(1) /\ At(s, i + 1) \in Dg(0)..Dg(2) /\ At(s, i + 2) = DASH THEN 2
    ELSE IF At(s, i) = Dg(0) /\ At(s, i + 1) \in Dg(1)..Dg(9) /\ At(s, i + 2) = DASH THEN 2
    ELSE IF At(s, i) \in Dg(1)..Dg(9) /\ At(s, i + 1) = DASH THEN 1
    ELSE 0

\* %d at position i: 3[0-1] | [1-2]\d | 0[1-9] | [1-9] | ' '[1-9]
DayLen(s, i) ==
    IF At(s, i) = Dg(3) /\ At(s, i + 1) \in Dg(0)..Dg(1) THEN 2
    ELSE IF At(s, i) \in Dg(1)..Dg(2) /\ IsDigit(At(s, i + 1)) THEN 2
    ELSE IF At(s, i) = Dg(0) /\ At(s, i + 1) \in Dg(1)..Dg(9) THEN 2
    ELSE IF At(s, i) \in Dg(1)..Dg(9) THEN 1
    ELSE IF At(s, i) = SPACE /\ At(s, i + 1) \in Dg(1)..Dg(9) THEN 2
    ELSE 0

\* the value of the decimal digits s[i..j]
RECURSIVE DecVal(_, _, _)
DecVal(s, i, j) == IF j < i THEN 0 ELSE 10 * DecVal(s, i, j - 1) + DigitVal(s[j])

\* datetime.strptime(s, "%Y-%m-%d"): the date <<y, m, d>>, or ValueError
strptime(s) ==
    IF ~ (\A i \in 1..4 : IsDigit(At(s, i))) \/ At(s, 5) # DASH THEN ValueError
    ELSE LET ml == MonthLen(s, 6)
             dl == DayLen(s, 7 + ml)
         IN  IF ml = 0 \/ dl = 0 THEN ValueError
             ELSE IF 6 + ml + dl # Len(s) THEN ValueError    \* unconverted data remains
             ELSE LET y == DecVal(s, 1, 4)
                      m == DecVal(s, 6, 5 + ml)
                      d == IF s[7 + ml] = SPACE THEN DigitVal(s[8 + ml])
                           ELSE DecVal(s, 7 + ml, 6 + ml + dl)
                  IN  IF y < 1 \/ d > DaysInMonth(y, m) THEN ValueError
                      ELSE <<y, m, d>>

\* zero-padded decimal of n in w characters
RECURSIVE Shift10(_, _)
Shift10(n, k) == IF k = 0 \/ n = 0 THEN n ELSE Shift10(n \div 10, k - 1)
Pad(n, w) == [i \in 1..w |-> Dg(Shift10(n, w - i) % 10)]

\* date.strftime("%Y-%m-%d")
strftime(date) == Pad(date[1], 4) \o <<DASH>> \o Pad(date[2], 2) \o <<DASH>> \o Pad(date[3], 2)

NextDay(date) ==
    IF date[3] < DaysInMonth(date[1], date[2]) THEN <<date[1], date[2], date[3] + 1>>
    ELSE IF date[2] < 12 THEN <<date[1], date[2] + 1, 1>>
    ELSE <<date[1] + 1, 1, 1>>

StartDay == <<2024, 10, 1>>

RECURSIVE DayAt(_)
DayAt(c) == IF c = 0 THEN StartDay ELSE NextDay(DayAt(c - 1))

\* datetime.now(): the calendar day the clock shows
now == DayAt(clock)

----------------------------------------------------------------------------
(* bson.ObjectId *)

OidLen == 24
InvalidId == -1

\* the value of the first n hex characters of s
RECURSIVE FromHex(_, _)
FromHex(s, n) == IF n = 0 THEN 0 ELSE 16 * FromHex(s, n - 1) + HexVal(s[n])

\* n \div 16^k
RECURSIVE Shift16(_, _)
Shift16(n, k) == IF k = 0 \/ n = 0 THEN n ELSE Shift16(n \div 16, k - 1)

\* lower-case hex of n in w characters
ToHex(n, w) == [i \in 1..w |-> HexChar(Shift16(n, w - i) % 16)]

\* ObjectId(s): the id (a natural number), or InvalidId when s is not 24 hex characters
ObjectId(s) ==
    IF Len(s) = OidLen /\ \A i \in 1..Len(s) : IsHex(s[i]) THEN FromHex(s, OidLen) ELSE InvalidId

\* str(oid)
OidStr(oid) == ToHex(oid, OidLen)

----------------------------------------------------------------------------
(* Request inputs *)

Teacher1 == "teacher1"
Ghost == "ghost"
Usernames == {Teacher1, Ghost}

Messages == {"m1", "m2"}

S_2024_10_01 == <<50,48,50,52, 45, 49,48, 45, 48,49>>    \* "2024-10-01"
S_2024_9_1   == <<50,48,50,52, 45, 57, 45, 49>>          \* "2024-9-1"
S_2024_02_30 == <<50,48,50,52, 45, 48,50, 45, 51,48>>    \* "2024-02-30"
S_2024_10_02 == <<50,48,50,52, 45, 49,48, 45, 48,50>>    \* "2024-10-02"
S_bad        == <<98,97,100>>                            \* "bad"
S_empty      == <<>>                                     \* ""

ExpirationInputs == {S_2024_10_01, S_2024_9_1, S_2024_02_30}
StartInputs == {S_empty, S_2024_10_02, S_bad}

\* "not-a-valid-key"
S_not_a_valid_key == <<110,111,116, 45, 97, 45, 118,97,108,105,100, 45, 107,101,121>>

IdInputs == {OidStr(i) : i \in 1..MaxOid} \cup {S_not_a_valid_key}

NoArg == <<>>

----------------------------------------------------------------------------
(* Responses *)

Ok(body) == [status |-> 200, detail |-> "", body |-> body]
HTTPException(status_code, detail) == [status |-> status_code, detail |-> detail, body |-> <<>>]

AuthenticationRequired == HTTPException(401, "Authentication required")
InvalidIdentifier == HTTPException(400, "Invalid announcement ID")
NotFound == HTTPException(404, "Announcement not found")
InvalidExpirationDate == HTTPException(400, "Invalid expiration_date format. Use YYYY-MM-DD.")
InvalidStartDate == HTTPException(400, "Invalid start_date format. Use YYYY-MM-DD.")
Deleted == [status |-> 200, detail |-> "Announcement deleted successfully", body |-> <<>>]
\* an exception no handler catches: the framework answers 500
UnhandledFault == HTTPException(500, "Internal Server Error")

----------------------------------------------------------------------------
(* The store collaborators *)

None == [none |-> TRUE]

\* teachers_collection.find_one({"_id": username})
find_teacher(username) ==
    IF [_id |-> username] \in teachers_collection THEN [_id |-> username] ELSE None

\* collection.find_one({"_id": oid})
find_one(coll, oid) == IF oid \in DOMAIN coll THEN coll[oid] ELSE None

\* collection.insert_one(doc), the store assigning oid
insert_one(coll, oid, doc) == coll @@ (oid :> doc)

\* update_one with the filter left out: every document is rewritten
update_one_unfiltered(coll, oid, fields) ==
    [o \in DOMAIN coll |->
        [f \in DOMAIN coll[o] \cup DOMAIN fields |->
            IF f \in DOMAIN fields THEN fields[f] ELSE coll[o][f]]]

\* collection.update_one({"_id": oid}, {"$set": fields}): no document matched, no change
update_one(coll, oid, fields) ==
    IF oid \in DOMAIN coll
    THEN [coll EXCEPT ![oid] =
            [f \in DOMAIN coll[oid] \cup DOMAIN fields |->
                IF f \in DOMAIN fields THEN fields[f] ELSE coll[oid][f]]]
    ELSE coll

\* collection.delete_one({"_id": oid})
delete_one(coll, oid) ==
    [coll |-> [o \in DOMAIN coll \ {oid} |-> coll[o]],
     deleted_count |-> IF oid \in DOMAIN coll THEN 1 ELSE 0]

\* the orders .sort("created_at", -1) may return the documents ids in
sort_created_at_desc(coll, ids) ==
    {order \in [1..Cardinality(ids) -> ids] :
        /\ \A i, j \in DOMAIN order : i # j => order[i] # order[j]
        /\ \A i, j \in DOMAIN order :
              i < j => coll[order[i]].created_at >= coll[order[j]].created_at}

_serialize_announcement(doc, oid) ==
    [f \in DOMAIN doc \cup {"id"} |-> IF f = "id" THEN OidStr(oid) ELSE doc[f]]

\* the filter with $gt in place of $gte
active_query_gt(doc, today) ==
    /\ "expiration_date" \in DOMAIN doc
    /\ StrLe(today, doc.expiration_date) /\ doc.expiration_date # today
    /\ \/ "start_date" \notin DOMAIN doc
       \/ doc.start_date = S_empty
       \/ StrLe(doc.start_date, today)

\* the filter of get_active_announcements
active_query(doc, today) ==
    /\ "expiration_date" \in DOMAIN doc
    /\ StrLe(today, doc.expiration_date)
    /\ \/ "start_date" \notin DOMAIN doc
       \/ doc.start_date = S_empty
       \/ StrLe(doc.start_date, today)

----------------------------------------------------------------------------
(* The handlers, each as the store and the response it ends with *)

Req(op, id, m, e, s, t) ==
    [op |-> op, announcement_id |-> id, message |-> m,
     expiration_date |-> e, start_date |-> s, teacher_username |-> t]

Outcome(coll, resp) == [coll |-> coll, response |-> resp]

\* create storing the expiration date in start_date as well
create_announcement_start(coll, oid, today_clock, req) ==
    IF find_teacher(req.teacher_username) = None THEN Outcome(coll, AuthenticationRequired)
    ELSE IF strptime(req.expiration_date) = ValueError THEN Outcome(coll, InvalidExpirationDate)
    ELSE IF req.start_date # S_empty /\ strptime(req.start_date) = ValueError
         THEN Outcome(coll, InvalidStartDate)
    ELSE LET doc == [message |-> req.message,
                     expiration_date |-> req.expiration_date,
                     start_date |-> req.expiration_date,
                     created_by |-> req.teacher_username,
                     created_at |-> today_clock]
         IN  Outcome(insert_one(coll, oid, doc), Ok(<<_serialize_announcement(doc, oid)>>))

create_announcement(coll, oid, today_clock, req) ==
    IF find_teacher(req.teacher_username) = None THEN Outcome(coll, AuthenticationRequired)
    ELSE IF strptime(req.expiration_date) = ValueError THEN Outcome(coll, InvalidExpirationDate)
    ELSE IF req.start_date # S_empty /\ strptime(req.start_date) = ValueError
         THEN Outcome(coll, InvalidStartDate)
    ELSE LET doc == [message |-> req.message,
                     expiration_date |-> req.expiration_date,
                     start_date |-> req.start_date,
                     created_by |-> req.teacher_username,
                     created_at |-> today_clock]
         IN  Outcome(insert_one(coll, oid, doc), Ok(<<_serialize_announcement(doc, oid)>>))

\* update resolving the id before it authenticates
update_announcement_id_first(coll, req) ==
    LET obj_id == ObjectId(req.announcement_id) IN
    IF obj_id = InvalidId THEN Outcome(coll, InvalidIdentifier)
    ELSE IF find_teacher(req.teacher_username) = None THEN Outcome(coll, AuthenticationRequired)
    ELSE IF find_one(coll, obj_id) = None THEN Outcome(coll, NotFound)
    ELSE IF strptime(req.expiration_date) = ValueError THEN Outcome(coll, InvalidExpirationDate)
    ELSE IF req.start_date # S_empty /\ strptime(req.start_date) = ValueError
         THEN Outcome(coll, InvalidStartDate)
    ELSE LET update_data == [message |-> req.message,
                             expiration_date |-> req.expiration_date,
                             start_date |-> req.start_date]
             after == update_one(coll, obj_id, update_data)
         IN  Outcome(after, Ok(<<_serialize_announcement(find_one(after, obj_id), obj_id)>>))

\* update validating the dates before it looks the record up
update_announcement_dates_first(coll, req) ==
    IF find_teacher(req.teacher_username) = None THEN Outcome(coll, AuthenticationRequired)
    ELSE LET obj_id == ObjectId(req.announcement_id) IN
    IF obj_id = InvalidId THEN Outcome(coll, InvalidIdentifier)
    ELSE IF strptime(req.expiration_date) = ValueError THEN Outcome(coll, InvalidExpirationDate)
    ELSE IF req.start_date # S_empty /\ strptime(req.start_date) = ValueError
         THEN Outcome(coll, InvalidStartDate)
    ELSE IF find_one(coll, obj_id) = None THEN Outcome(coll, NotFound)
    ELSE LET update_data == [message |-> req.message,
                             expiration_date |-> req.expiration_date,
                             start_date |-> req.start_date]
             after == update_one(coll, obj_id, update_data)
         IN  Outcome(after, Ok(<<_serialize_announcement(find_one(after, obj_id), obj_id)>>))

\* update returning the document it read before update_one
update_announcement_stale(coll, req) ==
    IF find_teacher(req.teacher_username) = None THEN Outcome(coll, AuthenticationRequired)
    ELSE LET obj_id == ObjectId(req.announcement_id) IN
    IF obj_id = InvalidId THEN Outcome(coll, InvalidIdentifier)
    ELSE IF find_one(coll, obj_id) = None THEN Outcome(coll, NotFound)
    ELSE IF strptime(req.expiration_date) = ValueError THEN Outcome(coll, InvalidExpirationDate)
    ELSE IF req.start_date # S_empty /\ strptime(req.start_date) = ValueError
         THEN Outcome(coll, InvalidStartDate)
    ELSE LET update_data == [message |-> req.message,
                             expiration_date |-> req.expiration_date,
                             start_date |-> req.start_date]
             after == update_one(coll, obj_id, update_data)
         IN  Outcome(after, Ok(<<_serialize_announcement(find_one(coll, obj_id), obj_id)>>))

update_announcement(coll, req) ==
    IF find_teacher(req.teacher_username) = None THEN Outcome(coll, AuthenticationRequired)
    ELSE LET obj_id == ObjectId(req.announcement_id) IN
    IF obj_id = InvalidId THEN Outcome(coll, InvalidIdentifier)
    ELSE IF find_one(coll, obj_id) = None THEN Outcome(coll, NotFound)
    ELSE IF strptime(req.expiration_date) = ValueError THEN Outcome(coll, InvalidExpirationDate)
    ELSE IF req.start_date # S_empty /\ strptime(req.start_date) = ValueError
         THEN Outcome(coll, InvalidStartDate)
    ELSE LET update_data == [message |-> req.message,
                             expiration_date |-> req.expiration_date,
                             start_date |-> req.start_date]
             after == update_one(coll, obj_id, update_data)
         IN  Outcome(after, Ok(<<_serialize_announcement(find_one(after, obj_id), obj_id)>>))

\* delete answering NotFound for an id it cannot parse
delete_announcement_not_found(coll, req) ==
    IF find_teacher(req.teacher_username) = None THEN Outcome(coll, AuthenticationRequired)
    ELSE LET obj_id == ObjectId(req.announcement_id) IN
    IF obj_id = InvalidId THEN Outcome(coll, NotFound)
    ELSE LET result == delete_one(coll, obj_id) IN
         IF result.deleted_count = 0 THEN Outcome(coll, NotFound)
         ELSE Outcome(result.coll, Deleted)

delete_announcement(coll, req) ==
    IF find_teacher(req.teacher_username) = None THEN Outcome(coll, AuthenticationRequired)
    ELSE LET obj_id == ObjectId(req.announcement_id) IN
    IF obj_id = InvalidId THEN Outcome(coll, InvalidIdentifier)
    ELSE LET result == delete_one(coll, obj_id) IN
         IF result.deleted_count = 0 THEN Outcome(coll, NotFound)
         ELSE Outcome(result.coll, Deleted)

----------------------------------------------------------------------------
(* State machine: a server that handles one request at a time.  A request  *)
(* is received, its handler runs as one step, the response is sent.        *)

NoRequest == Req("none", NoArg, "", NoArg, NoArg, "")
NoResponse == HTTPException(0, "")

Requests ==
    {Req("list_active", NoArg, "", NoArg, NoArg, "")}
    \cup {Req("list_all", NoArg, "", NoArg, NoArg, t) : t \in Usernames}
    \cup {Req("create", NoArg, m, e, s, t) :
            m \in Messages, e \in ExpirationInputs, s \in StartInputs, t \in Usernames}
    \cup {Req("update", id, m, e, s, t) :
            id \in IdInputs, m \in Messages, e \in ExpirationInputs, s \in StartInputs,
            t \in Usernames}
    \cup {Req("delete", id, "", NoArg, NoArg, t) : id \in IdInputs, t \in Usernames}

Idle == [pc |-> "idle", request |-> NoRequest, obj_id |-> InvalidId, response |-> NoResponse]

Init ==
    /\ announcements_collection = <<>>
    /\ teachers_collection = {[_id |-> Teacher1]}
    /\ next_oid = 1
    /\ clock = 0
    /\ request = NoRequest
    /\ response = NoResponse
    /\ update_req = Idle
    /\ delete_req = Idle

\* a day passes between two requests
Tick ==
    /\ request = NoRequest
    /\ clock < MaxClock
    /\ clock' = clock + 1
    /\ UNCHANGED <<announcements_collection, teachers_collection, next_oid,
                   request, response, update_req, delete_req>>

\* a request arrives (the store hands out at most MaxOid ids)
Receive(req) ==
    /\ request = NoRequest
    /\ req.op = "create" => next_oid <= MaxOid
    /\ request' = req
    /\ UNCHANGED <<announcements_collection, teachers_collection, next_oid, clock,
                   response, update_req, delete_req>>

\* the response is sent
Respond ==
    /\ response # NoResponse
    /\ request' = NoRequest
    /\ response' = NoResponse
    /\ UNCHANGED <<announcements_collection, teachers_collection, next_oid, clock,
                   update_req, delete_req>>

GetActive ==
    LET today == strftime(now)
        ids == {o \in DOMAIN announcements_collection :
                   active_query(announcements_collection[o], today)}
    IN  /\ request.op = "list_active" /\ response = NoResponse
        /\ \E order \in sort_created_at_desc(announcements_collection, ids) :
              response' = Ok([i \in DOMAIN order |->
                 _serialize_announcement(announcements_collection[order[i]], order[i])])
        /\ UNCHANGED <<announcements_collection, teachers_collection, next_oid, clock,
                       request, update_req, delete_req>>

GetAll ==
    /\ request.op = "list_all" /\ response = NoResponse
    /\ IF find_teacher(request.teacher_username) = None
       THEN response' = AuthenticationRequired
       ELSE \E order \in sort_created_at_desc(announcements_collection,
                                              DOMAIN announcements_collection) :
               response' = Ok([i \in DOMAIN order |->
                 _serialize_announcement(announcements_collection[order[i]], order[i])])
    /\ UNCHANGED <<announcements_collection, teachers_collection, next_oid, clock,
                   request, update_req, delete_req>>

Create ==
    LET out == create_announcement(announcements_collection, next_oid, clock, request)
    IN  /\ request.op = "create" /\ response = NoResponse
        /\ response' = out.response
        /\ announcements_collection' = out.coll
        /\ next_oid' = IF out.response.status = 200 THEN next_oid + 1 ELSE next_oid
        /\ UNCHANGED <<teachers_collection, clock, request, update_req, delete_req>>

Update ==
    LET out == update_announcement(announcements_collection, request)
    IN  /\ request.op = "update" /\ response = NoResponse
        /\ response' = out.response
        /\ announcements_collection' = out.coll
        /\ UNCHANGED <<teachers_collection, next_oid, clock, request, update_req, delete_req>>

Delete ==
    LET out == delete_announcement(announcements_collection, request)
    IN  /\ request.op = "delete" /\ response = NoResponse
        /\ response' = out.response
        /\ announcements_collection' = out.coll
        /\ UNCHANGED <<teachers_collection, next_oid, clock, request, update_req, delete_req>>

Next ==
    \/ Tick
    \/ \E req \in Requests : Receive(req)
    \/ GetActive
    \/ GetAll
    \/ Create
    \/ Update
    \/ Delete
    \/ Respond

Spec == Init /\ [][Next]_vars

----------------------------------------------------------------------------
(* The same machine over a store that already holds a document written     *)
(* without a start_date field (the case the $exists branch of the active   *)
(* filter is there for).                                                   *)

LegacyDoc == [message |-> "m1", expiration_date |-> S_2024_10_01,
              created_by |-> Teacher1, created_at |-> 0]

InitSeeded ==
    /\ announcements_collection = (1 :> LegacyDoc)
    /\ teachers_collection = {[_id |-> Teacher1]}
    /\ next_oid = 2
    /\ clock = 0
    /\ request = NoRequest
    /\ response = NoResponse
    /\ update_req = Idle
    /\ delete_req = Idle

SpecSeeded == InitSeeded /\ [][Next]_vars

----------------------------------------------------------------------------
(* An update request and delete requests running concurrently: each store  *)
(* call of update_announcement is a step of its own.                       *)

\* a store holding one announcement, as create_announcement leaves it
InitRace ==
    /\ teachers_collection = {[_id |-> Teacher1]}
    /\ \E e \in ExpirationInputs, s \in StartInputs :
          LET out == create_announcement(<<>>, 1, 0, Req("create", NoArg, "m1", e, s, Teacher1))
          IN  /\ out.response.status = 200
              /\ announcements_collection = out.coll
    /\ next_oid = 2
    /\ clock = 0
    /\ request = NoRequest
    /\ response = NoResponse
    /\ update_req = Idle
    /\ delete_req = Idle

\* lines 130-160: authentication, id, find_one, date validation
UpdateFindExisting(id, m, e, s, t) ==
    LET req == Req("update", id, m, e, s, t)
        obj_id == ObjectId(id)
        fail(resp) == update_req' = [pc |-> "done", request |-> req,
                                     obj_id |-> obj_id, response |-> resp]
    IN  /\ update_req.pc \in {"idle", "done"}
        /\ IF find_teacher(t) = None THEN fail(AuthenticationRequired)
           ELSE IF obj_id = InvalidId THEN fail(InvalidIdentifier)
           ELSE IF find_one(announcements_collection, obj_id) = None THEN fail(NotFound)
           ELSE IF strptime(e) = ValueError THEN fail(InvalidExpirationDate)
           ELSE IF s # S_empty /\ strptime(s) = ValueError THEN fail(InvalidStartDate)
           ELSE update_req' = [pc |-> "update_one", request |-> req,
                               obj_id |-> obj_id, response |-> NoResponse]
        /\ UNCHANGED <<announcements_collection, teachers_collection, next_oid, clock,
                       request, response, delete_req>>

\* lines 162-168: update_one
UpdateWrite ==
    /\ update_req.pc = "update_one"
    /\ announcements_collection' =
          update_one(announcements_collection, update_req.obj_id,
                     [message |-> update_req.request.message,
                      expiration_date |-> update_req.request.expiration_date,
                      start_date |-> update_req.request.start_date])
    /\ update_req' = [update_req EXCEPT !.pc = "find_one"]
    /\ UNCHANGED <<teachers_collection, next_oid, clock, request, response, delete_req>>

\* lines 170-171: find_one, then _serialize_announcement; None has no pop()
UpdateFindUpdated ==
    LET updated == find_one(announcements_collection, update_req.obj_id)
    IN  /\ update_req.pc = "find_one"
        /\ update_req' = [update_req EXCEPT
              !.pc = "done",
              !.response = IF updated = None THEN UnhandledFault
                           ELSE Ok(<<_serialize_announcement(updated, update_req.obj_id)>>)]
        /\ UNCHANGED <<announcements_collection, teachers_collection, next_oid, clock,
                       request, response, delete_req>>

\* delete_announcement: its one store call is delete_one
DeleteOne(id, t) ==
    LET req == Req("delete", id, "", NoArg, NoArg, t)
        out == delete_announcement(announcements_collection, req)
    IN  /\ delete_req' = [pc |-> "done", request |-> req,
                          obj_id |-> ObjectId(id), response |-> out.response]
        /\ announcements_collection' = out.coll
        /\ UNCHANGED <<teachers_collection, next_oid, clock, request, response, update_req>>

NextRace ==
    \/ \E id \in IdInputs, m \in Messages, e \in ExpirationInputs, s \in StartInputs,
          t \in Usernames : UpdateFindExisting(id, m, e, s, t)
    \/ UpdateWrite
    \/ UpdateFindUpdated
    \/ \E id \in IdInputs, t \in Usernames : DeleteOne(id, t)

SpecRace == InitRace /\ [][NextRace]_vars

----------------------------------------------------------------------------
(* Vocabulary of the properties *)

\* the step is the handler of the request in flight answering it
Handled == request # NoRequest /\ response = NoResponse /\ response' # NoResponse

\* the state is the one a handler leaves: the request and its response
Answered == request # NoRequest /\ response # NoResponse

TeacherKnown(username) == \E teacher \in teachers_collection : teacher._id = username

\* s is a calendar date written in the fixed-width form YYYY-MM-DD
IsYMD(s) ==
    /\ Len(s) = 10
    /\ s[5] = DASH /\ s[8] = DASH
    /\ \A i \in {1, 2, 3, 4, 6, 7, 9, 10} : IsDigit(s[i])
    /\ LET y == 1000 * DigitVal(s[1]) + 100 * DigitVal(s[2]) + 10 * DigitVal(s[3]) + DigitVal(s[4])
           m == 10 * DigitVal(s[6]) + DigitVal(s[7])
           d == 10 * DigitVal(s[9]) + DigitVal(s[10])
       IN  y >= 1 /\ m \in 1..12 /\ d \in 1..DaysInMonth(y, m)

\* date a is on or before date b
DateLe(a, b) ==
    \/ a[1] < b[1]
    \/ a[1] = b[1] /\ a[2] < b[2]
    \/ a[1] = b[1] /\ a[2] = b[2] /\ a[3] <= b[3]

\* id is syntactically a store key: 24 hexadecimal characters
StructurallyValid(id) == Len(id) = OidLen /\ \A i \in 1..Len(id) : IsHex(id[i])

\* the keys of the documents whose serialized id is id
Matching(coll, id) == {o \in DOMAIN coll : OidStr(o) = id}

Replaced == {"message", "expiration_date", "start_date"}

BodyIds(resp) == {resp.body[i].id : i \in DOMAIN resp.body}

----------------------------------------------------------------------------
(* C1: a list_active request returns exactly the announcements A with      *)
(* A.expiration_date >= today and (A.start_date absent, or empty, or       *)
(* A.start_date <= today), the comparisons being those of the stored       *)
(* strings, each once, and leaves the store unchanged.                     *)

ClaimedActive(A, today) ==
    /\ StrLe(today, A.expiration_date)
    /\ \/ "start_date" \notin DOMAIN A
       \/ A.start_date = S_empty
       \/ StrLe(A.start_date, today)

----------------------------------------------------------------------------
(* C2: create, update, delete and list_all by a username the Teacher       *)
(* Directory has no record of end with 401 whatever the other arguments    *)
(* are, and leave the store as it was.                                     *)

C2_AuthFirst ==
    [][(/\ Handled
        /\ request.op \in {"create", "update", "delete", "list_all"}
        /\ ~ TeacherKnown(request.teacher_username)) =>
          /\ response' = AuthenticationRequired
          /\ announcements_collection' = announcements_collection]_vars

\* an update by an unknown user whose id and expiration date are malformed too
C2_Witness ==
    /\ request.op = "update"
    /\ ~ TeacherKnown(request.teacher_username)
    /\ ~ StructurallyValid(request.announcement_id)
    /\ ~ IsYMD(request.expiration_date)
    /\ response = AuthenticationRequired
    /\ announcements_collection # <<>>

----------------------------------------------------------------------------
(* C3: in create and in update (known teacher; update on an existing       *)
(* record) an expiration_date, or a non-empty start_date, that is not a    *)
(* YYYY-MM-DD date ends the request with the 400 naming that field and     *)
(* leaves the store unchanged.                                             *)

C3_MalformedDateRejected ==
    [][(/\ Handled
        /\ request.op \in {"create", "update"}
        /\ TeacherKnown(request.teacher_username)
        /\ request.op = "update" =>
              Matching(announcements_collection, request.announcement_id) # {}
        /\ \/ ~ IsYMD(request.expiration_date)
           \/ request.start_date # S_empty /\ ~ IsYMD(request.start_date)) =>
          /\ response' = IF ~ IsYMD(request.expiration_date)
                         THEN InvalidExpirationDate ELSE InvalidStartDate
          /\ announcements_collection' = announcements_collection]_vars

----------------------------------------------------------------------------
(* C4: for update and delete by a known teacher, a malformed id yields     *)
(* InvalidIdentifier, a well-formed id matching no record yields NotFound, *)
(* and the store is unchanged in both cases.                               *)

C4_IdErrors ==
    [][(/\ Handled
        /\ request.op \in {"update", "delete"}
        /\ TeacherKnown(request.teacher_username)) =>
          /\ ~ StructurallyValid(request.announcement_id) =>
                /\ response' = InvalidIdentifier
                /\ announcements_collection' = announcements_collection
          /\ (/\ StructurallyValid(request.announcement_id)
              /\ Matching(announcements_collection, request.announcement_id) = {}) =>
                /\ response' = NotFound
                /\ announcements_collection' = announcements_collection]_vars

\* a delete of a well-formed id that no stored announcement has
C4_Witness ==
    /\ request.op = "delete"
    /\ TeacherKnown(request.teacher_username)
    /\ StructurallyValid(request.announcement_id)
    /\ Matching(announcements_collection, request.announcement_id) = {}
    /\ announcements_collection # <<>>
    /\ response = NotFound

----------------------------------------------------------------------------
(* C5: a successful create adds exactly one record, under an id no record  *)
(* had, holding the supplied message, expiration_date and start_date (""   *)
(* when none) and created_by = teacher_username; the returned record       *)
(* equals the stored one field for field; all other records are unchanged. *)

C5_Create ==
    [][(Handled /\ request.op = "create" /\ response'.status = 200) =>
          \E n \in DOMAIN announcements_collection' \ DOMAIN announcements_collection :
             LET stored == announcements_collection'[n]
                 returned == response'.body[1]
             IN  /\ DOMAIN announcements_collection' = DOMAIN announcements_collection \cup {n}
                 /\ stored.message = request.message
                 /\ stored.expiration_date = request.expiration_date
                 /\ stored.start_date = request.start_date
                 /\ stored.created_by = request.teacher_username
                 /\ Len(response'.body) = 1
                 /\ DOMAIN returned = DOMAIN stored \cup {"id"}
                 /\ returned.id = OidStr(n)
                 /\ \A f \in DOMAIN stored : returned[f] = stored[f]
                 /\ \A o \in DOMAIN announcements_collection :
                       announcements_collection'[o] = announcements_collection[o]]_vars

\* a create with a start date, into a store that already held an announcement
C5_Witness ==
    /\ request.op = "create"
    /\ response.status = 200
    /\ request.start_date # S_empty
    /\ Cardinality(DOMAIN announcements_collection) = 2
    /\ \E o \in DOMAIN announcements_collection :
          _serialize_announcement(announcements_collection[o], o) = response.body[1]

----------------------------------------------------------------------------
(* C6: a successful update changes nothing but message, expiration_date    *)
(* and start_date of the record with that id; no step changes the          *)
(* created_by or created_at of a record that stays in the store.           *)

C6_UpdateFrame ==
    [][/\ (Handled /\ request.op = "update" /\ response'.status = 200) =>
             /\ DOMAIN announcements_collection' = DOMAIN announcements_collection
             /\ \A o \in DOMAIN announcements_collection :
                   IF OidStr(o) = request.announcement_id
                   THEN \A f \in DOMAIN announcements_collection[o] \ Replaced :
                           /\ f \in DOMAIN announcements_collection'[o]
                           /\ announcements_collection'[o][f] = announcements_collection[o][f]
                   ELSE announcements_collection'[o] = announcements_collection[o]
       /\ \A o \in DOMAIN announcements_collection \cap DOMAIN announcements_collection' :
             \A f \in {"created_by", "created_at"} :
                /\ f \in DOMAIN announcements_collection'[o]
                /\ announcements_collection'[o][f] = announcements_collection[o][f]]_vars

\* an update that changed one of two stored announcements, a day after it was created
C6_Witness ==
    /\ request.op = "update"
    /\ response.status = 200
    /\ Cardinality(DOMAIN announcements_collection) = 2
    /\ \E o, other \in DOMAIN announcements_collection :
          /\ OidStr(o) = request.announcement_id
          /\ other # o
          /\ announcements_collection[o].created_at < clock
          /\ announcements_collection[o].expiration_date
                # announcements_collection[other].expiration_date

----------------------------------------------------------------------------
(* C7: update is idempotent: in the state an update leaves, the same       *)
(* update once more leaves the same store and returns the same outcome.    *)

C7_UpdateIdempotent ==
    (Answered /\ request.op = "update") =>
        update_announcement(announcements_collection, request)
            = Outcome(announcements_collection, response)

\* an update that succeeded and replaced the dates of its record
C7_Witness ==
    /\ request.op = "update"
    /\ response.status = 200
    /\ request.start_date # S_empty
    /\ response.body[1].expiration_date = request.expiration_date

----------------------------------------------------------------------------
(* C8: from an empty store, every stored expiration_date is a fixed-width  *)
(* YYYY-MM-DD date and every start_date is empty or one, so that comparing *)
(* the stored strings with today's agrees with the order of the dates.     *)

C8_StoredDatesWellFormed ==
    \A o \in DOMAIN announcements_collection :
       LET A == announcements_collection[o] IN
          /\ IsYMD(A.expiration_date)
          /\ StrLe(strftime(now), A.expiration_date) <=> DateLe(now, strptime(A.expiration_date))
          /\ A.start_date = S_empty \/ IsYMD(A.start_date)

----------------------------------------------------------------------------
(* C9: update checks, in this order, the teacher, the form of the id, the  *)
(* existence of the record, expiration_date, start_date, and ends with the *)
(* error of the first check that fails: a well-formed id without a record  *)
(* and a rejected date give NotFound, two rejected dates name              *)
(* expiration_date.                                                        *)

\* the date check of the handler rejects s
Rejected(s) == strptime(s) = ValueError

FirstFailure(coll, req) ==
    IF ~ TeacherKnown(req.teacher_username) THEN AuthenticationRequired
    ELSE IF ~ StructurallyValid(req.announcement_id) THEN InvalidIdentifier
    ELSE IF Matching(coll, req.announcement_id) = {} THEN NotFound
    ELSE IF Rejected(req.expiration_date) THEN InvalidExpirationDate
    ELSE IF req.start_date # S_empty /\ Rejected(req.start_date) THEN InvalidStartDate
    ELSE Ok(<<>>)

----------------------------------------------------------------------------
(* C10: an update racing with a delete of the same record never ends in an *)
(* unhandled fault: it returns the post-update record or NotFound (or the  *)
(* error of one of its earlier checks); the delete ends as specified.      *)

C10_RaceOutcome ==
    /\ update_req.pc = "done" =>
          update_req.response.status \in {200, 400, 401, 404}
    /\ delete_req.pc = "done" =>
          delete_req.response.status \in {200, 400, 401, 404}

====
